---- MODULE Spec2Model ----
(***************************************************************************)
(* A model of the bank-statement analyzer: the text ingestion path         *)
(* (src/src/transaction_analysis.py), the tabular ingestion path           *)
(* (src/src/data_cleaning.py), the keyword classifier                      *)
(* (src/src/classification.py) and the forecaster (src/src/forecasting.py).*)
(*                                                                         *)
(* Strings are sequences of one-character strings, so that the regular     *)
(* expressions, str.replace, str.lower, float() and strptime are computed  *)
(* character by character as the Python code computes them.                *)
(* Floats are exact decimals [neg, mant, exp] = (-1)^neg * mant * 10^-exp, *)
(* normalised so that mant has no trailing zero when exp > 0.              *)
(***************************************************************************)
EXTENDS Integers, Sequences, FiniteSets, TLC

VARIABLES
    \* ---- parse_amount called on one string
    amount_str,        \* the argument
    amount_out,        \* NotCalled, a decimal, or the name of the exception raised
    \* ---- parse_date called on one string
    date_in,           \* the calendar date and format the string was formatted from (or NoDate)
    date_str,          \* the argument
    date_out,          \* NotCalled, None, a date, or the name of the exception raised
    \* ---- the transaction collection (a pandas DataFrame) and the stages run on it
    df,                \* [columns, rows]; NotCalled before it is built
    \* ---- clean_and_format_data called on one raw grid of table cells
    grid,              \* the argument: [header, rows], the cells strings
    grid_out,          \* NotCalled or the DataFrame returned
    \* ---- load_transactions_from_text_files called on a list of text units
    text_files,        \* the argument: the text of each file, in list order
    now_year,          \* datetime.now().year during the call
    file_idx,          \* how many units the for loop has processed
    file_transactions, \* the parse result of the unit processed last
    all_transactions,  \* the accumulated list of records
    pc,                \* "idle", "loop" (inside the for loop) or "returned"
    \* ---- the stages called on the returned DataFrame
    cat_out,           \* apply_categorization: NotCalled, Returned or the exception raised
    cls_out,           \* classify_transactions: NotCalled or Returned
    iso_preds,         \* Unfitted, or IsolationForest(random_state=42).fit_predict(X)
    anom_out,          \* detect_anomalies: NotCalled, Returned or the exception raised
    forecast_out,      \* forecast_cash_flow: NotCalled, the forecast or the exception raised
    fit_attempted,     \* forecast_cash_flow reached ExponentialSmoothing(...).fit (lines 36-37)
    \* ---- the extraction loop of the pipeline over the PDFs of the input directory
    pdf_files,         \* os.listdir(pdf_dir): each PDF the list of its pages' extract_text()
    pdf_idx,           \* how many PDFs the for loop has started
    page_num,          \* enumerate index of the next page of the current PDF
    output_dir,        \* the directory "extracted_texts": page number n of page_{n}.txt -> content
    extracted,         \* the PDFs (positions in pdf_files) whose extraction returned
    ext_pc             \* "idle", "loop" (between PDFs), "pages" (inside extract_text_from_pdf)

vars == <<amount_str, amount_out, date_in, date_str, date_out, df, grid, grid_out,
          text_files, now_year, file_idx, file_transactions, all_transactions, pc,
          cat_out, cls_out, iso_preds, anom_out, forecast_out, fit_attempted,
          pdf_files, pdf_idx, page_num, output_dir, extracted, ext_pc>>

\* an operation that has not returned yet
NotCalled == [tag |-> "NotCalled"]

\* Python's None
None == [tag |-> "None"]

\* an exception that left the function
Raised(name) == [exc |-> name]

IsRaised(out) == "exc" \in DOMAIN out

\* a call that returned its DataFrame argument
Returned == [tag |-> "Returned"]

amountVars == <<amount_str, amount_out>>
dateVars == <<date_in, date_str, date_out>>
loadVars == <<text_files, now_year, file_idx, file_transactions, all_transactions, pc>>
stageVars == <<cat_out, cls_out, iso_preds, anom_out, forecast_out, fit_attempted>>
textVars == <<loadVars, stageVars>>
gridVars == <<grid, grid_out>>
extractVars == <<pdf_files, pdf_idx, page_num, output_dir, extracted, ext_pc>>

(***************************************************************************)
(* Characters and strings                                                  *)
(***************************************************************************)
Digits == {"0", "1", "2", "3", "4", "5", "6", "7", "8", "9"}

DigitVal(c) ==
    CASE c = "0" -> 0 [] c = "1" -> 1 [] c = "2" -> 2 [] c = "3" -> 3 [] c = "4" -> 4
      [] c = "5" -> 5 [] c = "6" -> 6 [] c = "7" -> 7 [] c = "8" -> 8 [] c = "9" -> 9

DigitChar(n) ==
    CASE n = 0 -> "0" [] n = 1 -> "1" [] n = 2 -> "2" [] n = 3 -> "3" [] n = 4 -> "4"
      [] n = 5 -> "5" [] n = 6 -> "6" [] n = 7 -> "7" [] n = 8 -> "8" [] n = 9 -> "9"

Upper == {"A", "B", "C", "D", "E", "F", "G", "H", "I", "J", "K", "L", "M",
          "N", "O", "P", "Q", "R", "S", "T", "U", "V", "W", "X", "Y", "Z"}

Lower == {"a", "b", "c", "d", "e", "f", "g", "h", "i", "j", "k", "l", "m",
          "n", "o", "p", "q", "r", "s", "t", "u", "v", "w", "x", "y", "z"}

\* \s of the re module, restricted to the whitespace the inputs contain
Whitespace == {" ", "\n", "\t"}

Contains(s, c) == \E i \in DOMAIN s : s[i] = c

\* s.replace(c, "")
Remove(s, c) == SelectSeq(s, LAMBDA x : x # c)

\* all sequences over chars of length 0..n
StringsUpTo(chars, n) == UNION {[1..k -> chars] : k \in 0..n}

RECURSIVE DigitsVal(_)
DigitsVal(s) ==
    IF s = <<>> THEN 0
    ELSE DigitsVal(SubSeq(s, 1, Len(s) - 1)) * 10 + DigitVal(s[Len(s)])

RECURSIVE NatDigits(_)
NatDigits(n) ==
    IF n < 10 THEN <<DigitChar(n)>>
    ELSE NatDigits(n \div 10) \o <<DigitChar(n % 10)>>

\* str.strip() == '' : the string is empty or all whitespace
IsBlank(s) == \A i \in DOMAIN s : s[i] \in Whitespace

\* the length of the longest run of characters of class in t from position p
RECURSIVE RunLen(_, _, _)
RunLen(t, p, class) ==
    IF p \in DOMAIN t /\ t[p] \in class THEN 1 + RunLen(t, p + 1, class) ELSE 0

\* s.strip()
Strip(s) ==
    IF IsBlank(s) THEN <<>>
    ELSE LET first == CHOOSE i \in DOMAIN s :
                          s[i] \notin Whitespace /\ \A j \in 1..(i - 1) : s[j] \in Whitespace
             last  == CHOOSE i \in DOMAIN s :
                          s[i] \notin Whitespace /\ \A j \in (i + 1)..Len(s) : s[j] \in Whitespace
         IN  SubSeq(s, first, last)

(***************************************************************************)
(* str.lower and the in operator on strings                                *)
(***************************************************************************)
UpperSeq == <<"A", "B", "C", "D", "E", "F", "G", "H", "I", "J", "K", "L", "M",
              "N", "O", "P", "Q", "R", "S", "T", "U", "V", "W", "X", "Y", "Z">>

LowerSeq == <<"a", "b", "c", "d", "e", "f", "g", "h", "i", "j", "k", "l", "m",
              "n", "o", "p", "q", "r", "s", "t", "u", "v", "w", "x", "y", "z">>

LowerChar(c) ==
    IF c \in Upper THEN LowerSeq[CHOOSE i \in DOMAIN UpperSeq : UpperSeq[i] = c] ELSE c

\* s.lower()
StrLower(s) == [i \in DOMAIN s |-> LowerChar(s[i])]

\* kw in s
IsSubstring(kw, s) ==
    \E i \in 1..(Len(s) - Len(kw) + 1) : SubSeq(s, i, i + Len(kw) - 1) = kw

(***************************************************************************)
(* Decimals                                                                *)
(***************************************************************************)
RECURSIVE Norm(_, _, _)
Norm(neg, mant, exp) ==
    IF exp > 0 /\ mant % 10 = 0 THEN Norm(neg, mant \div 10, exp - 1)
    ELSE [neg |-> neg, mant |-> mant, exp |-> exp]

Zero == [neg |-> FALSE, mant |-> 0, exp |-> 0]

IsNumber(v) == v \in [neg : BOOLEAN, mant : Nat, exp : Nat]

\* Python's == on floats: 0.0 == -0.0
NumEq(a, b) == a.mant = b.mant /\ a.exp = b.exp /\ (a.neg = b.neg \/ a.mant = 0)

\* v < 0
IsNegative(v) == v.neg /\ v.mant > 0

\* abs(v)
Abs(v) == [v EXCEPT !.neg = FALSE]

\* -v
Neg(v) == [v EXCEPT !.neg = ~v.neg]

(***************************************************************************)
(* float(s), for the strings that reach it: every caller has removed all   *)
(* characters but digits, '.', '-', '(' and ')' before the call, so the    *)
(* accepted grammar is  -? ( digit+ [ '.' digit* ] | '.' digit+ ).         *)
(* The result is [ok, val]; ok = FALSE stands for ValueError.              *)
(***************************************************************************)
PyFloat(s) ==
    LET neg   == s # <<>> /\ s[1] = "-"
        body  == IF neg THEN Tail(s) ELSE s
        dots  == {i \in DOMAIN body : body[i] = "."}
        valid == /\ \A i \in DOMAIN body : body[i] \in Digits \cup {"."}
                 /\ Cardinality(dots) <= 1
                 /\ \E i \in DOMAIN body : body[i] \in Digits
        dot   == IF dots = {} THEN Len(body) + 1 ELSE CHOOSE i \in dots : TRUE
        exp   == IF dots = {} THEN 0 ELSE Len(body) - dot
    IN  IF valid
        THEN [ok |-> TRUE, val |-> Norm(neg, DigitsVal(Remove(body, ".")), exp)]
        ELSE [ok |-> FALSE, val |-> Zero]

(***************************************************************************)
(* str(x) of a float x (float.__repr__): the shortest digits that round    *)
(* trip, in fixed notation when -4 <= exponent < 16 and in scientific      *)
(* notation otherwise.                                                     *)
(***************************************************************************)
Zeros(n) == [i \in 1..n |-> "0"]

FloatStr(v) ==
    LET ds    == NatDigits(v.mant)
        n     == Len(ds)
        decpt == n - v.exp
        e10   == decpt - 1
        sign  == IF v.neg THEN <<"-">> ELSE <<>>
        ae    == IF e10 < 0 THEN 0 - e10 ELSE e10
        es    == IF ae < 10 THEN <<"0">> \o NatDigits(ae) ELSE NatDigits(ae)
        sci   == <<ds[1]>> \o (IF n > 1 THEN <<".">> \o SubSeq(ds, 2, n) ELSE <<>>)
                    \o <<"e">> \o (IF e10 < 0 THEN <<"-">> ELSE <<"+">>) \o es
        fixed == IF v.exp = 0 THEN ds \o <<".", "0">>
                 ELSE IF n > v.exp
                      THEN SubSeq(ds, 1, n - v.exp) \o <<".">> \o SubSeq(ds, n - v.exp + 1, n)
                      ELSE <<"0", ".">> \o Zeros(v.exp - n) \o ds
    IN  IF v.mant = 0 THEN sign \o <<"0", ".", "0">>
        ELSE IF decpt < -3 \/ decpt > 16 THEN sign \o sci
        ELSE sign \o fixed

(***************************************************************************)
(* data_cleaning.parse_amount                                              *)
(***************************************************************************)
\* re.sub(r'[^0-9.\-()]', '', amount_str)
AmountKeep == Digits \cup {".", "-", "(", ")"}

CleanAmount(s) == SelectSeq(s, LAMBDA c : c \in AmountKeep)

\* if '(' in clean_str and ')' in clean_str: '-' + clean_str without parentheses
Unparenthesize(clean) ==
    IF Contains(clean, "(") /\ Contains(clean, ")")
    THEN <<"-">> \o Remove(Remove(clean, "("), ")")
    ELSE clean

\* the same without the except clause
FloatOrZero_NoExcept(clean) ==
    LET r == PyFloat(clean) IN IF r.ok THEN r.val ELSE Raised("ValueError")

\* try: return float(clean_str)  except ValueError: return 0.0
FloatOrZero(clean) ==
    LET r == PyFloat(clean) IN IF r.ok THEN r.val ELSE Zero

parse_amount(s) ==
    IF s = <<>> \/ IsBlank(s) THEN Zero
    ELSE FloatOrZero(Unparenthesize(CleanAmount(s)))

(***************************************************************************)
(* datetime.strptime(s, fmt).  A format is a sequence of directives        *)
(* ("%d", "%m", "%Y", "%b") and literal characters.  _strptime compiles    *)
(* the format to a regular expression, matches it at the start of the      *)
(* string (first alternative first, backtracking into the next), raises    *)
(* ValueError when the match fails or leaves unconverted data, and again   *)
(* when the day is out of range for the month.                             *)
(***************************************************************************)
IsLeap(y) == (y % 4 = 0 /\ y % 100 # 0) \/ y % 400 = 0

DaysInMonth(y, m) ==
    IF m = 2 THEN (IF IsLeap(y) THEN 29 ELSE 28)
    ELSE IF m \in {4, 6, 9, 11} THEN 30 ELSE 31

IsDigitAt(s, i) == i \in DOMAIN s /\ s[i] \in Digits

\* the alternatives of a directive that match s at pos, in the order the
\* regular expression tries them: <<[len, val], ...>>
\*   %d  (3[0-1]|[1-2]\d|0[1-9]|[1-9]| [1-9])
\*   %m  (1[0-2]|0[1-9]|[1-9])
\*   %Y  (\d\d\d\d)
\*   %b  (jan|feb|...|dec), case ignored
MonthAbbr == << <<"j", "a", "n">>, <<"f", "e", "b">>, <<"m", "a", "r">>, <<"a", "p", "r">>,
               <<"m", "a", "y">>, <<"j", "u", "n">>, <<"j", "u", "l">>, <<"a", "u", "g">>,
               <<"s", "e", "p">>, <<"o", "c", "t">>, <<"n", "o", "v">>, <<"d", "e", "c">> >>

DirectiveAlts(dir, s, pos) ==
    LET two == IF IsDigitAt(s, pos) /\ IsDigitAt(s, pos + 1)
               THEN DigitVal(s[pos]) * 10 + DigitVal(s[pos + 1]) ELSE 0
        one == IF IsDigitAt(s, pos) THEN DigitVal(s[pos]) ELSE 0
        sp1 == IF pos \in DOMAIN s /\ s[pos] = " " /\ IsDigitAt(s, pos + 1)
               THEN DigitVal(s[pos + 1]) ELSE 0
        abbr == IF pos + 2 <= Len(s) THEN StrLower(SubSeq(s, pos, pos + 2)) ELSE <<>>
        mon == IF \E k \in DOMAIN MonthAbbr : MonthAbbr[k] = abbr
               THEN CHOOSE k \in DOMAIN MonthAbbr : MonthAbbr[k] = abbr ELSE 0
        alt(ok, len, val) == IF ok THEN <<[len |-> len, val |-> val]>> ELSE <<>>
    IN  CASE dir = "%d" -> alt(two >= 1 /\ two <= 31, 2, two) \o alt(one >= 1, 1, one)
                              \o alt(sp1 >= 1, 2, sp1)
          [] dir = "%m" -> alt(two >= 1 /\ two <= 12, 2, two) \o alt(one >= 1, 1, one)
          [] dir = "%Y" -> alt(\A k \in 0..3 : IsDigitAt(s, pos + k), 4,
                               IF \A k \in 0..3 : IsDigitAt(s, pos + k)
                               THEN DigitsVal(SubSeq(s, pos, pos + 3)) ELSE 0)
          [] dir = "%b" -> alt(mon >= 1, 3, mon)

IsDirective(t) == t \in {"%d", "%m", "%Y", "%b"}

NoMatch == [ok |-> FALSE]

\* the regular expression's match of fmt[k..] against s from pos:
\* [ok, end, d, m, Y] (a field the format lacks is 0)
RECURSIVE StrpMatch(_, _, _, _)
RECURSIVE StrpFirst(_, _, _, _, _, _)
StrpMatch(s, pos, fmt, k) ==
    IF k > Len(fmt) THEN [ok |-> TRUE, end |-> pos, d |-> 0, m |-> 0, Y |-> 0]
    ELSE IF IsDirective(fmt[k])
         THEN StrpFirst(s, pos, fmt, k, DirectiveAlts(fmt[k], s, pos), 1)
         ELSE IF fmt[k] = " "
              \* whitespace in a format is \s+ ; what follows it in the formats
              \* used here (%b, %Y) matches no whitespace, so the run is taken whole
              THEN IF RunLen(s, pos, Whitespace) >= 1
                   THEN StrpMatch(s, pos + RunLen(s, pos, Whitespace), fmt, k + 1)
                   ELSE NoMatch
         ELSE IF pos \in DOMAIN s /\ s[pos] = fmt[k]
              THEN StrpMatch(s, pos + 1, fmt, k + 1)
              ELSE NoMatch

StrpFirst(s, pos, fmt, k, alts, a) ==
    IF a > Len(alts) THEN NoMatch
    ELSE LET rest == StrpMatch(s, pos + alts[a].len, fmt, k + 1)
         IN  IF rest.ok
             THEN CASE fmt[k] = "%d" -> [rest EXCEPT !.d = alts[a].val]
                    [] fmt[k] \in {"%m", "%b"} -> [rest EXCEPT !.m = alts[a].val]
                    [] fmt[k] = "%Y" -> [rest EXCEPT !.Y = alts[a].val]
             ELSE StrpFirst(s, pos, fmt, k, alts, a + 1)

\* [ok |-> TRUE, date |-> [y, m, d]] or [ok |-> FALSE] for ValueError
strptime(s, fmt) ==
    LET f == StrpMatch(s, 1, fmt, 1)
    IN  IF ~f.ok THEN NoMatch                        \* does not match format
        ELSE IF f.end # Len(s) + 1 THEN NoMatch      \* unconverted data remains
        ELSE IF f.Y < 1 THEN NoMatch                 \* year 0 is out of range
        ELSE IF f.d > DaysInMonth(f.Y, f.m) THEN NoMatch  \* day is out of range for month
        ELSE [ok |-> TRUE, date |-> [y |-> f.Y, m |-> f.m, d |-> f.d]]

(***************************************************************************)
(* data_cleaning.parse_date                                                *)
(***************************************************************************)
FmtDMY  == <<"%d", "/", "%m", "/", "%Y">>
FmtMDY  == <<"%m", "/", "%d", "/", "%Y">>
FmtISO  == <<"%Y", "-", "%m", "-", "%d">>
FmtDMYd == <<"%d", "-", "%m", "-", "%Y">>
FmtDMYp == <<"%d", ".", "%m", ".", "%Y">>

\* the list with its first two formats exchanged
DateFormats_MonthFirst == <<FmtMDY, FmtDMY, FmtISO, FmtDMYd, FmtDMYp>>

\* for fmt in ('%d/%m/%Y', '%m/%d/%Y', '%Y-%m-%d', '%d-%m-%Y', '%d.%m.%Y')
DateFormats == <<FmtDMY, FmtMDY, FmtISO, FmtDMYd, FmtDMYp>>

\* try: return datetime.strptime(date_str, fmt)  except ValueError: pass
RECURSIVE TryFormats(_, _, _)
TryFormats(s, fmts, k) ==
    IF k > Len(fmts) THEN None
    ELSE LET r == strptime(s, fmts[k])
         IN  IF r.ok THEN r.date ELSE TryFormats(s, fmts, k + 1)

parse_date(s) == TryFormats(s, DateFormats, 1)

(***************************************************************************)
(* pandas DataFrame: the column labels in order and the rows, each a       *)
(* record with one field per column.                                       *)
(***************************************************************************)
\* pd.DataFrame()
EmptyFrame == [columns |-> <<>>, rows |-> <<>>]

\* c in df.columns
HasColumn(frame, c) == \E i \in DOMAIN frame.columns : frame.columns[i] = c

\* df.empty
IsEmptyFrame(frame) == frame.columns = <<>> \/ frame.rows = <<>>

\* df[c] = vals
SetColumn(frame, c, vals) ==
    [columns |-> IF HasColumn(frame, c) THEN frame.columns ELSE Append(frame.columns, c),
     rows    |-> [i \in DOMAIN frame.rows |->
                    [k \in (DOMAIN frame.rows[i]) \cup {c} |->
                        IF k = c THEN vals[i] ELSE frame.rows[i][k]]]]

\* pd.DataFrame(records) for a non-empty list of dicts with the same keys
FrameOf(cols, records) == [columns |-> cols, rows |-> records]

(***************************************************************************)
(* classification.classify_transactions                                    *)
(***************************************************************************)
categories == <<
    [cat |-> "rent", keywords |-> <<<<"r", "e", "n", "t">>,
                                    <<"l", "e", "a", "s", "e">>>>],
    [cat |-> "utilities", keywords |-> <<<<"e", "l", "e", "c", "t", "r", "i", "c">>,
                                         <<"u", "t", "i", "l", "i", "t", "y">>,
                                         <<"w", "a", "t", "e", "r">>,
                                         <<"g", "a", "s">>,
                                         <<"w", "i", "f", "i">>,
                                         <<"i", "n", "t", "e", "r", "n", "e", "t">>>>],
    [cat |-> "payroll", keywords |-> <<<<"p", "a", "y", "r", "o", "l", "l">>,
                                       <<"s", "a", "l", "a", "r", "y">>,
                                       <<"w", "a", "g", "e", "s">>,
                                       <<"p", "a", "y", "c", "h", "e", "c", "k">>>>],
    [cat |-> "loan", keywords |-> <<<<"l", "o", "a", "n">>,
                                    <<"m", "o", "r", "t", "g", "a", "g", "e">>,
                                    <<"i", "n", "t", "e", "r", "e", "s", "t">>,
                                    <<"r", "e", "p", "a", "y", "m", "e", "n", "t">>>>],
    [cat |-> "insurance", keywords |-> <<<<"i", "n", "s", "u", "r", "a", "n", "c", "e">>,
                                         <<"p", "r", "e", "m", "i", "u", "m">>>>]
>>

\* any(kw in desc for kw in keywords)
AnyKeyword(keywords, desc) == \E j \in DOMAIN keywords : IsSubstring(keywords[j], desc)

\* the loop over categories.items() without its break: the last match stays
RECURSIVE AssignCategory_NoBreak(_, _, _)
AssignCategory_NoBreak(desc, k, assigned) ==
    IF k > Len(categories) THEN assigned
    ELSE AssignCategory_NoBreak(desc, k + 1,
            IF AnyKeyword(categories[k].keywords, desc) THEN categories[k].cat ELSE assigned)

\* assigned_category = 'misc'; for cat, keywords in categories.items(): if any(...): assign, break
RECURSIVE AssignCategory(_, _, _)
AssignCategory(desc, k, assigned) ==
    IF k > Len(categories) THEN assigned
    ELSE IF AnyKeyword(categories[k].keywords, desc) THEN categories[k].cat
    ELSE AssignCategory(desc, k + 1, assigned)

classify_transactions(frame) ==
    SetColumn(frame, "category",
        [i \in DOMAIN frame.rows |->
            AssignCategory(StrLower(frame.rows[i].description), 1, "misc")])

(***************************************************************************)
(* data_cleaning.clean_and_format_data and detect_columns.                 *)
(* Column labels are strings; a cell is a string (as extracted), a float   *)
(* (after parse_amount), a date or None (after parse_date).                *)
(***************************************************************************)
StrCell(s) == [kind |-> "str", s |-> s]
FloatCell(x) == [kind |-> "float", x |-> x]

\* str(x) for a cell of a money column
CellStr(c) == IF c.kind = "str" THEN c.s ELSE FloatStr(c.x)

\* no column of that role (Python's None: falsy, and in no df.columns)
NoCol == <<>>

LblAmount == <<"A", "m", "o", "u", "n", "t">>
LblDate == <<"d", "a", "t", "e">>
LblDescription == <<"d", "e", "s", "c", "r", "i", "p", "t", "i", "o", "n">>
LblDebit == <<"d", "e", "b", "i", "t">>
LblCredit == <<"c", "r", "e", "d", "i", "t">>
LblBalance == <<"b", "a", "l", "a", "n", "c", "e">>

\* the if/elif chain of detect_columns on lc = col.lower()
ColumnRole(lc) ==
    IF IsSubstring(<<"d", "a", "t", "e">>, lc) THEN "date"
    ELSE IF IsSubstring(<<"d", "e", "s", "c">>, lc)
            \/ IsSubstring(<<"n", "a", "r", "r", "a", "t", "i", "o", "n">>, lc) THEN "desc"
    ELSE IF IsSubstring(<<"d", "e", "b", "i", "t">>, lc) THEN "debit"
    ELSE IF IsSubstring(<<"c", "r", "e", "d", "i", "t">>, lc) THEN "credit"
    ELSE IF IsSubstring(<<"b", "a", "l">>, lc) THEN "bal"
    ELSE "pass"

\* for col in df.columns: a later column of the same role replaces an earlier one
RECURSIVE DetectLoop(_, _, _)
DetectLoop(cols, k, acc) ==
    IF k > Len(cols) THEN acc
    ELSE LET role == ColumnRole(StrLower(cols[k]))
         IN  DetectLoop(cols, k + 1,
                        IF role = "pass" THEN acc ELSE [acc EXCEPT ![role] = cols[k]])

detect_columns(frame) ==
    DetectLoop(frame.columns, 1,
               [date |-> NoCol, desc |-> NoCol, debit |-> NoCol, credit |-> NoCol, bal |-> NoCol])

\* header = df.iloc[0]; df.columns = header; df = df.iloc[1:].reset_index(drop=True)
PromoteHeader(g) ==
    [columns |-> g.header,
     rows    |-> [i \in DOMAIN g.rows |->
                    [c \in {g.header[j] : j \in DOMAIN g.header} |->
                        StrCell(g.rows[i][CHOOSE j \in DOMAIN g.header : g.header[j] = c])]]]

\* if val < 0: debit = abs(val), credit = 0.0;  else: credit = val, debit = 0.0
SplitValue(row, val, debit_col, credit_col) ==
    IF IsNegative(val)
    THEN [row EXCEPT ![debit_col] = FloatCell(Abs(val)), ![credit_col] = FloatCell(Zero)]
    ELSE [row EXCEPT ![credit_col] = FloatCell(val), ![debit_col] = FloatCell(Zero)]

\* val_str = df.loc[i, 'Amount']; val = parse_amount(val_str); the two branches
SplitAmount(row, debit_col, credit_col) ==
    SplitValue(row, parse_amount(row[LblAmount].s), debit_col, credit_col)

\* if not col: df['debit' or 'credit'] = 0.0
AddZeroColumn(frame, detected, label) ==
    IF detected = NoCol
    THEN SetColumn(frame, label, [i \in DOMAIN frame.rows |-> FloatCell(Zero)])
    ELSE frame

\* for i in range(len(df)): the loop over the rows
SplitRows(frame, debit_col, credit_col) ==
    [frame  |-> [frame EXCEPT !.rows = [i \in DOMAIN frame.rows |->
                                          SplitAmount(frame.rows[i], debit_col, credit_col)]],
     debit  |-> debit_col,
     credit |-> credit_col]

\* if 'Amount' in df.columns: create the missing debit/credit columns, fill every row
SynthesizeDebitCredit(frame, det) ==
    IF ~HasColumn(frame, LblAmount) THEN [frame |-> frame, debit |-> det.debit, credit |-> det.credit]
    ELSE SplitRows(AddZeroColumn(AddZeroColumn(frame, det.debit, LblDebit),
                                 det.credit, LblCredit),
                   IF det.debit = NoCol THEN LblDebit ELSE det.debit,
                   IF det.credit = NoCol THEN LblCredit ELSE det.credit)

\* if date_col and date_col in df.columns:
\*     df[date_col] = df[date_col].apply(lambda x: parse_date(str(x)))
ConvertDates(frame, col) ==
    IF col # NoCol /\ HasColumn(frame, col)
    THEN [frame EXCEPT !.rows = [i \in DOMAIN frame.rows |->
            [frame.rows[i] EXCEPT ![col] = parse_date(frame.rows[i][col].s)]]]
    ELSE frame

\* if col and col in df.columns: df[col] = df[col].apply(lambda x: parse_amount(str(x)))
ConvertAmounts(frame, col) ==
    IF col # NoCol /\ HasColumn(frame, col)
    THEN [frame EXCEPT !.rows = [i \in DOMAIN frame.rows |->
            [frame.rows[i] EXCEPT ![col] = FloatCell(parse_amount(CellStr(frame.rows[i][col])))]]]
    ELSE frame

\* the date column, then the debit, credit and balance columns
ConvertColumns(frame, det, debit_col, credit_col) ==
    ConvertAmounts(
        ConvertAmounts(
            ConvertAmounts(ConvertDates(frame, det.date), debit_col),
            credit_col),
        det.bal)

\* no row is dropped
DropInvalidRows_KeepAll(frame, det) == frame

\* if date_col in df.columns: df.dropna(subset=[date_col], inplace=True)
DropInvalidRows(frame, det) ==
    IF det.date # NoCol /\ HasColumn(frame, det.date)
    THEN [frame EXCEPT !.rows = SelectSeq(frame.rows, LAMBDA r : r[det.date] # None)]
    ELSE frame

\* df.rename(columns={date_col: 'date', desc_col: 'description', debit_col: 'debit',
\*                    credit_col: 'credit', balance_col: 'balance'})
RenamedLabel(l, det, debit_col, credit_col) ==
    IF l = NoCol THEN l
    ELSE IF l = det.date THEN LblDate
    ELSE IF l = det.desc THEN LblDescription
    ELSE IF l = debit_col THEN LblDebit
    ELSE IF l = credit_col THEN LblCredit
    ELSE IF l = det.bal THEN LblBalance
    ELSE l

\* cols = [c for c in ['date', 'description', 'debit', 'credit', 'balance'] if c in df.columns]
\* df = df[cols].reset_index(drop=True)
RenameAndReorder(frame, det, debit_col, credit_col) ==
    LET renamed == [j \in DOMAIN frame.columns |->
                        RenamedLabel(frame.columns[j], det, debit_col, credit_col)]
        standard == <<LblDate, LblDescription, LblDebit, LblCredit, LblBalance>>
        cols == SelectSeq(standard, LAMBDA c : \E j \in DOMAIN renamed : renamed[j] = c)
        src(c) == frame.columns[CHOOSE j \in DOMAIN renamed : renamed[j] = c]
    IN  [columns |-> cols,
         rows    |-> [i \in DOMAIN frame.rows |->
                        [c \in {cols[j] : j \in DOMAIN cols} |-> frame.rows[i][src(c)]]]]

\* from the conversion of the columns to the return
CleanSynthesized(syn, det) ==
    RenameAndReorder(
        DropInvalidRows(ConvertColumns(syn.frame, det, syn.debit, syn.credit), det),
        det, syn.debit, syn.credit)

\* from the single "Amount" column on
CleanDetected(frame, det) == CleanSynthesized(SynthesizeDebitCredit(frame, det), det)

clean_and_format_data(g) ==
    CleanDetected(PromoteHeader(g), detect_columns(PromoteHeader(g)))

(***************************************************************************)
(* transaction_analysis.parse_transactions_from_text.                      *)
(* A match is [ok, ..., end]: the groups as strings and the position after *)
(* the match.  The quantifiers are matched as re matches them: \s+ and     *)
(* [\d,]+ greedy, the description lazy, the first success in that order.   *)
(***************************************************************************)
\* [A-Za-z0-9 \-.,&]
PrimaryDescChars == Upper \cup Lower \cup Digits \cup {" ", "-", ".", ",", "&"}

\* [\w\s\-.,&]
SecondaryDescChars == Upper \cup Lower \cup Digits \cup {"_"} \cup Whitespace
                        \cup {"-", ".", ",", "&"}

\* [\d,]
AmountDigitChars == Digits \cup {","}

\* \$?[\d,]+\.\d{2} at position a: [ok, start, from, to], the optional '$' at
\* start, the digits from..to.  The run [\d,]+ is followed by '.', which is
\* not in its class, so only the whole run can match.
AmountAt(t, a) ==
    LET b == IF a \in DOMAIN t /\ t[a] = "$" THEN a + 1 ELSE a
        r == RunLen(t, b, AmountDigitChars)
    IN  IF /\ r >= 1
           /\ b + r + 2 <= Len(t)
           /\ t[b + r] = "."
           /\ t[b + r + 1] \in Digits
           /\ t[b + r + 2] \in Digits
        THEN [ok |-> TRUE, start |-> a, from |-> b, to |-> b + r + 2]
        ELSE [ok |-> FALSE]

\* \d{2}/\d{2}/\d{4} at position i
FullDateAt(t, i) ==
    /\ i + 9 <= Len(t)
    /\ \A k \in {0, 1, 3, 4, 6, 7, 8, 9} : t[i + k] \in Digits
    /\ t[i + 2] = "/"
    /\ t[i + 5] = "/"

\* of the <<whitespace length, description length>> pairs that let the rest of
\* the pattern match: the longest whitespace, then the shortest description
FirstChoice(cands) ==
    CHOOSE c \in cands :
        \A o \in cands : c[1] > o[1] \/ (c[1] = o[1] /\ c[2] <= o[2])

\* (\d{2}/\d{2}/\d{4})\s+([A-Za-z0-9 \-.,&]+?)\s+\$?([\d,]+\.\d{2}) at position i
PrimaryAt(t, i) ==
    IF ~FullDateAt(t, i) THEN [ok |-> FALSE]
    ELSE LET p == i + 10
             tail(c) == p + c[1] + c[2]       \* the position after the description
             amt(c) == AmountAt(t, tail(c) + RunLen(t, tail(c), Whitespace))
             cands == {c \in (1..RunLen(t, p, Whitespace)) \X (1..Len(t)) :
                          /\ c[2] <= RunLen(t, p + c[1], PrimaryDescChars)
                          /\ RunLen(t, tail(c), Whitespace) >= 1
                          /\ amt(c).ok}
         IN  IF cands = {} THEN [ok |-> FALSE]
             ELSE LET c == FirstChoice(cands)
                  IN  [ok          |-> TRUE,
                       date_str    |-> SubSeq(t, i, i + 9),
                       description |-> SubSeq(t, p + c[1], tail(c) - 1),
                       amount_str  |-> SubSeq(t, amt(c).from, amt(c).to),
                       end         |-> amt(c).to + 1]

\* primary_pattern.findall(text): the matches from position i on, left to right,
\* each search resuming where the last match ended
RECURSIVE PrimaryFindAll(_, _)
PrimaryFindAll(t, i) ==
    IF i > Len(t) THEN <<>>
    ELSE LET m == PrimaryAt(t, i)
         IN  IF m.ok THEN <<m>> \o PrimaryFindAll(t, m.end)
             ELSE PrimaryFindAll(t, i + 1)

\* ^(\d{1,2}\s+[A-Za-z]{3})\s+([\w\s\-.,&]+?)\s+(\$?[\d,]+\.\d{2})\s+(\$?[\d,]+\.\d{2})
\* with re.MULTILINE, at position i
SecondaryAt(t, i) ==
    LET nd  == IF IsDigitAt(t, i) /\ IsDigitAt(t, i + 1) THEN 2
               ELSE IF IsDigitAt(t, i) THEN 1 ELSE 0
        wsA == RunLen(t, i + nd, Whitespace)
        mon == i + nd + wsA
        p   == mon + 3
        tail(c) == p + c[1] + c[2]
        amt1(c) == AmountAt(t, tail(c) + RunLen(t, tail(c), Whitespace))
        gap(c)  == RunLen(t, amt1(c).to + 1, Whitespace)
        amt2(c) == AmountAt(t, amt1(c).to + 1 + gap(c))
        cands == {c \in (1..RunLen(t, p, Whitespace)) \X (1..Len(t)) :
                     /\ c[2] <= RunLen(t, p + c[1], SecondaryDescChars)
                     /\ RunLen(t, tail(c), Whitespace) >= 1
                     /\ amt1(c).ok
                     /\ gap(c) >= 1
                     /\ amt2(c).ok}
    IN  IF /\ (i = 1 \/ t[i - 1] = "\n")
           /\ nd >= 1
           /\ wsA >= 1
           /\ RunLen(t, mon, Upper \cup Lower) >= 3
           /\ cands # {}
        THEN LET c == FirstChoice(cands)
             IN  [ok          |-> TRUE,
                  date_str    |-> SubSeq(t, i, mon + 2),
                  description |-> SubSeq(t, p + c[1], tail(c) - 1),
                  debit_str   |-> SubSeq(t, amt1(c).start, amt1(c).to),
                  credit_str  |-> SubSeq(t, amt2(c).start, amt2(c).to),
                  end         |-> amt2(c).to + 1]
        ELSE [ok |-> FALSE]

\* secondary_pattern.findall(text)
RECURSIVE SecondaryFindAll(_, _)
SecondaryFindAll(t, i) ==
    IF i > Len(t) THEN <<>>
    ELSE LET m == SecondaryAt(t, i)
         IN  IF m.ok THEN <<m>> \o SecondaryFindAll(t, m.end)
             ELSE SecondaryFindAll(t, i + 1)

\* np.nan
NaN == [nan |-> TRUE]

\* try: datetime.strptime(...)  except Exception: date_obj = None
DateOrNone(s, fmt) ==
    LET r == strptime(s, fmt) IN IF r.ok THEN r.date ELSE None

\* the transaction of one primary match
PrimaryRecord(m) ==
    LET f == PyFloat(Remove(m.amount_str, ","))
    IN  [date        |-> DateOrNone(m.date_str, FmtMDY),
         description |-> Strip(m.description),
         amount      |-> IF f.ok THEN f.val ELSE NaN]

\* float(s.replace("$", "").replace(",", "")), 0.0 on an exception
DollarsOrZero(s) ==
    LET f == PyFloat(Remove(Remove(s, "$"), ",")) IN IF f.ok THEN f.val ELSE Zero

FmtShort == <<"%d", " ", "%b", " ", "%Y">>

\* the credit taken whenever it is non-zero
SecondaryRecord_CreditFirst(m, year) ==
    LET debit  == DollarsOrZero(m.debit_str)
        credit == DollarsOrZero(m.credit_str)
    IN  [date        |-> DateOrNone(m.date_str \o <<" ">> \o NatDigits(year), FmtShort),
         description |-> Strip(m.description),
         amount      |-> IF ~credit.neg /\ credit.mant > 0 THEN credit ELSE Neg(debit)]

\* the transaction of one secondary match; year is datetime.now().year
SecondaryRecord(m, year) ==
    LET debit  == DollarsOrZero(m.debit_str)
        credit == DollarsOrZero(m.credit_str)
    IN  [date        |-> DateOrNone(m.date_str \o <<" ">> \o NatDigits(year), FmtShort),
         description |-> Strip(m.description),
         amount      |-> IF ~debit.neg /\ debit.mant > 0 THEN Neg(debit) ELSE credit]

PrimaryRecords(text) ==
    LET matches == PrimaryFindAll(text, 1)
    IN  [k \in DOMAIN matches |-> PrimaryRecord(matches[k])]

SecondaryRecords(text, year) ==
    LET sec_matches == SecondaryFindAll(text, 1)
    IN  [k \in DOMAIN sec_matches |-> SecondaryRecord(sec_matches[k], year)]

\* the secondary pattern tried whatever the primary pattern found
parse_transactions_from_text_Both(text, year) ==
    PrimaryRecords(text) \o SecondaryRecords(text, year)

\* if matches: one transaction per match;  if not transactions: the secondary pattern
parse_transactions_from_text(text, year) ==
    LET transactions == PrimaryRecords(text)
    IN  IF transactions = <<>> THEN SecondaryRecords(text, year) ELSE transactions

(***************************************************************************)
(* transaction_analysis.load_transactions_from_text_files                  *)
(***************************************************************************)
\* an empty unit empties the accumulated list
ExtendTransactions_ResetOnEmpty(all, ft) ==
    IF ft # <<>> THEN all \o ft ELSE <<>>

\* if file_transactions: all_transactions.extend(file_transactions)
ExtendTransactions(all, ft) ==
    IF ft # <<>> THEN all \o ft ELSE all

\* the keys of every transaction dict, in insertion order
TransactionColumns == <<"date", "description", "amount">>

\* if not all_transactions: return pd.DataFrame();  return pd.DataFrame(all_transactions)
TransactionsFrame(all) ==
    IF all = <<>> THEN EmptyFrame ELSE FrameOf(TransactionColumns, all)

(***************************************************************************)
(* transaction_analysis.categorize_transaction, apply_categorization,      *)
(* detect_anomalies.  A stage is a function from the DataFrame to          *)
(* [out, df]: out is Returned or the exception, df the DataFrame after it. *)
(***************************************************************************)
DepositKeywords == <<
    <<"d", "e", "p", "o", "s", "i", "t">>,
    <<"c", "r", "e", "d", "i", "t">>,
    <<"p", "a", "y", "m", "e", "n", "t", " ", "r", "e", "c", "e", "i", "v", "e", "d">>,
    <<"i", "n", "c", "o", "m", "i", "n", "g">>
>>

ExpenseKeywords == <<
    <<"w", "i", "t", "h", "d", "r", "a", "w", "a", "l">>,
    <<"c", "h", "e", "c", "k">>,
    <<"c", "a", "r", "d">>,
    <<"p", "a", "y", "m", "e", "n", "t">>,
    <<"d", "e", "b", "i", "t">>,
    <<"p", "u", "r", "c", "h", "a", "s", "e">>
>>

categorize_transaction(description) ==
    LET desc == StrLower(description)
    IN  IF AnyKeyword(DepositKeywords, desc) THEN "Deposit"
        ELSE IF AnyKeyword(ExpenseKeywords, desc) THEN "Expense"
        ELSE "Other"

apply_categorization(frame) ==
    IF ~HasColumn(frame, "description")
    THEN [out |-> Raised("ValueError"), df |-> frame]
    ELSE [out |-> Returned,
          df  |-> SetColumn(frame, "category",
                    [i \in DOMAIN frame.rows |->
                        categorize_transaction(frame.rows[i].description)])]

\* the predictions of an IsolationForest not fitted yet
Unfitted == [fitted |-> FALSE]

Fitted(preds) == [fitted |-> TRUE, preds |-> preds]

\* 1 for normal, -1 for anomaly
AnomalyLabels == {1, -1}

NotAnomalous(row) == row.anomaly = 1

\* the label vectors fit_predict can return for the rows, contamination=0.05:
\* the threshold is the 5th percentile of the scores, which for fewer than 21
\* samples lies between the lowest score and the next one, so only a sample
\* that has the lowest score alone is below it.  The score is a function of
\* the amount: rows with the amount of another row are never alone.
FitPredictOutcomes(rows) ==
    LET alone == {i \in DOMAIN rows :
                    \A j \in DOMAIN rows : j # i => rows[j].amount # rows[i].amount}
        normal == [i \in DOMAIN rows |-> 1]
    IN  {normal} \cup
        (IF Len(rows) < 2 THEN {} ELSE {[normal EXCEPT ![i] = -1] : i \in alone})

\* the rows predicted anomalous are removed instead of labelled
detect_anomalies_DropAnomalies(frame, preds) ==
    IF IsEmptyFrame(frame) THEN [out |-> Returned, df |-> frame]
    ELSE [out |-> Returned,
          df  |-> [frame EXCEPT !.rows =
                     SelectSeq(SetColumn(frame, "anomaly", preds).rows, NotAnomalous)]]

\* preds is iso_forest.fit_predict(X); fit_predict rejects a NaN in X
detect_anomalies(frame, preds) ==
    IF IsEmptyFrame(frame) THEN [out |-> Returned, df |-> frame]
    ELSE IF \E i \in DOMAIN frame.rows : frame.rows[i].amount = NaN
    THEN [out |-> Raised("ValueError"), df |-> frame]
    ELSE [out |-> Returned, df |-> SetColumn(frame, "anomaly", preds)]

(***************************************************************************)
(* forecasting.forecast_cash_flow.  The daily series is                    *)
(* [start, end, sums]: one entry for every day start..end (proleptic       *)
(* Gregorian ordinals), sums[d] on a day with transactions and 0 on the    *)
(* others.  The forecast values themselves are not computed.               *)
(***************************************************************************)
RECURSIVE Pow10(_)
Pow10(n) == IF n = 0 THEN 1 ELSE 10 * Pow10(n - 1)

\* a + b on floats
DecAdd(a, b) ==
    LET e  == IF a.exp > b.exp THEN a.exp ELSE b.exp
        sa == (IF a.neg THEN -1 ELSE 1) * a.mant * Pow10(e - a.exp)
        sb == (IF b.neg THEN -1 ELSE 1) * b.mant * Pow10(e - b.exp)
        t  == sa + sb
    IN  Norm(t < 0, IF t < 0 THEN -t ELSE t, e)

\* date.toordinal()
DaysBeforeYear(y) ==
    LET p == y - 1 IN p * 365 + p \div 4 - p \div 100 + p \div 400

RECURSIVE DaysBeforeMonth(_, _)
DaysBeforeMonth(y, m) ==
    IF m = 1 THEN 0 ELSE DaysBeforeMonth(y, m - 1) + DaysInMonth(y, m - 1)

ToOrdinal(date) == DaysBeforeYear(date.y) + DaysBeforeMonth(date.y, date.m) + date.d

\* pd.to_datetime turns None into NaT, and groupby leaves NaT keys out
HasDate(row) == row.date # None

\* the sum of the amounts of the rows k.. dated day d (NaN skipped)
RECURSIVE SumOn(_, _, _)
SumOn(rows, d, k) ==
    IF k > Len(rows) THEN Zero
    ELSE IF ToOrdinal(rows[k].date) = d /\ rows[k].amount # NaN
    THEN DecAdd(rows[k].amount, SumOn(rows, d, k + 1))
    ELSE SumOn(rows, d, k + 1)

\* the amount of the first row of the day instead of the sum of the day
GroupByDate_First(frame) ==
    LET dated == SelectSeq(frame.rows, HasDate)
        days  == {ToOrdinal(dated[i].date) : i \in DOMAIN dated}
    IN  [d \in days |->
            dated[CHOOSE i \in DOMAIN dated :
                    /\ ToOrdinal(dated[i].date) = d
                    /\ \A j \in 1..(i - 1) : ToOrdinal(dated[j].date) # d].amount]

\* df.groupby(df["date"].dt.date)["amount"].sum().sort_index()
GroupByDate(frame) ==
    LET dated == SelectSeq(frame.rows, HasDate)
        days  == {ToOrdinal(dated[i].date) : i \in DOMAIN dated}
    IN  [d \in days |-> SumOn(dated, d, 1)]

SetMin(S) == CHOOSE x \in S : \A y \in S : x <= y
SetMax(S) == CHOOSE x \in S : \A y \in S : x >= y

\* daily_flow.asfreq("D", fill_value=0), for a series with at least one day
AsFreqDaily(sums) ==
    [start |-> SetMin(DOMAIN sums), end |-> SetMax(DOMAIN sums), sums |-> sums]

\* daily_flow[d]
FlowOn(daily_flow, d) ==
    IF d \in DOMAIN daily_flow.sums THEN daily_flow.sums[d] ELSE Zero

\* len(daily_flow)
FlowLen(daily_flow) == daily_flow.end - daily_flow.start + 1

\* whether the call gets as far as ExponentialSmoothing(daily_flow, ...).fit:
\* not after the KeyError of line 26; no statement between line 26 and line
\* 36 tests the series, so a series with a day gets there, and one with no
\* day gets there unless asfreq raises on it first
ReachesFit(frame) ==
    IF ~HasColumn(frame, "date") THEN {FALSE}
    ELSE IF DOMAIN GroupByDate(frame) = {} THEN BOOLEAN
    ELSE {TRUE}

\* df["date"] on a DataFrame without that column is a KeyError; the additive
\* trend needs two observations to initialise, and a series of none or one
\* leaves ExponentialSmoothing with an exception of the library
forecast_cash_flow(frame, forecast_period) ==
    IF ~HasColumn(frame, "date") THEN Raised("KeyError")
    ELSE LET sums == GroupByDate(frame)
         IN  IF DOMAIN sums = {} THEN Raised("Exception")
             ELSE LET daily_flow == AsFreqDaily(sums)
                  IN  IF FlowLen(daily_flow) < 2 THEN Raised("Exception")
                      ELSE [daily_flow |-> daily_flow,
                            first      |-> daily_flow.end + 1,
                            periods    |-> forecast_period]

(***************************************************************************)
(* Specification SpecAmount: parse_amount applied to every string of at    *)
(* most MaxAmountLen characters over AmountChars.                          *)
(***************************************************************************)
MaxAmountLen == 4

AmountChars == {"1", "5", ".", "-", "(", ")", ",", "$", " "}

AmountIdle == amount_str = <<>> /\ amount_out = NotCalled
DateIdle == date_in = None /\ date_str = <<>> /\ date_out = NotCalled
FrameIdle == df = NotCalled
GridIdle == grid = NotCalled /\ grid_out = NotCalled
StagesIdle ==
    /\ cat_out = NotCalled
    /\ cls_out = NotCalled
    /\ iso_preds = Unfitted
    /\ anom_out = NotCalled
    /\ forecast_out = NotCalled
    /\ fit_attempted = FALSE
ExtractIdle ==
    /\ pdf_files = <<>>
    /\ pdf_idx = 0
    /\ page_num = 0
    /\ output_dir = <<>>
    /\ extracted = {}
    /\ ext_pc = "idle"
TextIdle ==
    /\ text_files = <<>>
    /\ now_year = 0
    /\ file_idx = 0
    /\ file_transactions = <<>>
    /\ all_transactions = <<>>
    /\ pc = "idle"
    /\ StagesIdle

InitAmount ==
    /\ amount_str \in StringsUpTo(AmountChars, MaxAmountLen)
    /\ amount_out = NotCalled
    /\ DateIdle
    /\ FrameIdle
    /\ GridIdle
    /\ TextIdle
    /\ ExtractIdle

CallParseAmount ==
    /\ amount_out = NotCalled
    /\ amount_out' = parse_amount(amount_str)
    /\ UNCHANGED <<amount_str, dateVars, df, gridVars, extractVars, textVars>>

NextAmount == CallParseAmount

SpecAmount == InitAmount /\ [][NextAmount]_vars

(***************************************************************************)
(* Specification SpecDate: parse_date applied to every date of two years   *)
(* (one of them a leap year) formatted in each of the five formats, and to *)
(* strings that are not such a formatted date.                             *)
(***************************************************************************)
DateYears == {2023, 2024}

ValidDates ==
    {dt \in [y : DateYears, m : 1..12, d : 1..31] : dt.d <= DaysInMonth(dt.y, dt.m)}

TwoDigits(n) == <<DigitChar(n \div 10), DigitChar(n % 10)>>

FourDigits(n) == TwoDigits(n \div 100) \o TwoDigits(n % 100)

\* date.strftime(fmt): zero-padded day and month, four-digit year
RECURSIVE Strftime(_, _, _)
Strftime(dt, fmt, k) ==
    IF k > Len(fmt) THEN <<>>
    ELSE (CASE fmt[k] = "%d" -> TwoDigits(dt.d)
            [] fmt[k] = "%m" -> TwoDigits(dt.m)
            [] fmt[k] = "%Y" -> FourDigits(dt.y)
            [] OTHER -> <<fmt[k]>>) \o Strftime(dt, fmt, k + 1)

\* strings that none of the five formats matches
MalformedDates == {
    <<>>,
    <<"a", "b", "c">>,
    <<"3", "1", "/", "0", "2", "/", "2", "0", "2", "3">>,        \* 31 February
    <<"1", "3", "/", "1", "3", "/", "2", "0", "2", "3">>,        \* month 13 either way
    <<"2", "0", "2", "3", "-", "0", "2", "-", "3", "0">>,        \* 30 February
    <<"1", "/", "2", "/", "2", "3">>,                            \* two-digit year
    <<"0", "1", "/", "0", "2", "/", "2", "0", "2", "3", " ">>,   \* trailing space
    <<"2", "0", "2", "3", "/", "0", "1", "/", "0", "2">>,        \* year first with slashes
    <<"2", "9", ".", "0", "2", ".", "2", "0", "2", "3">>,        \* 29 February, no leap year
    <<"0", "1", "/", "0", "2", "/", "2", "0", "2", "4", "5">>,   \* five-digit year
    <<"0", "0", "/", "0", "1", "/", "2", "0", "2", "4">>,        \* day 0
    <<"0", "1", "/", "0", "2", "/", "0", "0", "0", "0">>,        \* year 0
    <<"0", "1", "-", "0", "2", "/", "2", "0", "2", "4">>         \* mixed delimiters
}

\* strings that are no strftime output and still parse
UnpaddedDates == {
    <<"1", "-", "2", "-", "2", "0", "2", "4">>,
    <<" ", "1", "/", "0", "2", "/", "2", "0", "2", "4">>,
    <<"1", "/", "2", "/", "2", "0", "2", "4">>
}

InitDate ==
    /\ \/ /\ date_in \in [date : ValidDates, fmt : DOMAIN DateFormats]
          /\ date_str = Strftime(date_in.date, DateFormats[date_in.fmt], 1)
       \/ /\ date_in = None
          /\ date_str \in MalformedDates \cup UnpaddedDates
    /\ date_out = NotCalled
    /\ AmountIdle
    /\ FrameIdle
    /\ GridIdle
    /\ TextIdle
    /\ ExtractIdle

CallParseDate ==
    /\ date_out = NotCalled
    /\ date_out' = parse_date(date_str)
    /\ UNCHANGED <<date_in, date_str, amountVars, df, gridVars, extractVars, textVars>>

NextDate == CallParseDate

SpecDate == InitDate /\ [][NextDate]_vars

(***************************************************************************)
(* Claims about parse_amount (SpecAmount)                                  *)
(***************************************************************************)
\* the string is  junk ( number ) junk : one '(' before one ')', nothing that
\* parse_amount keeps outside them, and between them an unsigned number with
\* at most a minus sign in front of it
C5_Open(s) == CHOOSE i \in DOMAIN s : s[i] = "("
C5_Close(s) == CHOOSE j \in DOMAIN s : s[j] = ")"
C5_Inside(s) ==
    LET inner == CleanAmount(SubSeq(s, C5_Open(s) + 1, C5_Close(s) - 1))
    IN  IF inner # <<>> /\ inner[1] = "-" THEN Tail(inner) ELSE inner
C5_IsParenthesized(s) ==
    /\ Cardinality({i \in DOMAIN s : s[i] = "("}) = 1
    /\ Cardinality({j \in DOMAIN s : s[j] = ")"}) = 1
    /\ C5_Open(s) < C5_Close(s)
    /\ \A k \in DOMAIN s : (k < C5_Open(s) \/ k > C5_Close(s)) => s[k] \notin AmountKeep
    /\ ~Contains(C5_Inside(s), "-")
    /\ PyFloat(C5_Inside(s)).ok

\* C5: for every amount string with an opening and a closing parenthesis around
\* a numeric value, parse_amount returns the negative of the unparenthesized
\* value, whether or not a minus sign is embedded ("(1)" and "(-1)" both give -1).
C5_ParenthesesNegate ==
    (amount_out # NotCalled /\ C5_IsParenthesized(amount_str))
        => /\ IsNumber(amount_out)
           /\ NumEq(amount_out, Neg(PyFloat(C5_Inside(amount_str)).val))

\* what is left of the string when parse_amount calls float()
C6_Residue(s) == Unparenthesize(CleanAmount(s))

\* C6: parse_amount is total on strings: it returns a number for every string,
\* never raises, and returns 0.0 whenever what is left after stripping is not a
\* parseable number.
C6_ParseAmountTotal ==
    amount_out # NotCalled
        => /\ IsNumber(amount_out)
           /\ ~PyFloat(C6_Residue(amount_str)).ok => amount_out = Zero

\* a string with digits left after stripping that float() rejects came back as 0.0
C6_Witness ==
    /\ amount_out = Zero
    /\ \E i \in DOMAIN amount_str : amount_str[i] \in Digits
    /\ ~PyFloat(C6_Residue(amount_str)).ok

(***************************************************************************)
(* Claims about parse_date (SpecDate)                                      *)
(***************************************************************************)
IsDate(v) == v \in [y : Nat, m : 1..12, d : 1..31]

\* C7 as stated: in each of the five formats, a formatted valid date parses back
\* to the same date.
C7_RoundTripEveryFormat ==
    (date_out # NotCalled /\ date_in # None) => date_out = date_in.date

\* C7 as amended: the round trip holds for day/month/year, year-month-day,
\* day-month-year and day.month.year; a month/day/year string whose day is at
\* most 12 is read as day/month/year (day and month exchanged), and round trips
\* otherwise; a string no format matches gives None; parse_date never raises.
C7_RoundTrip ==
    date_out # NotCalled
        => /\ date_out = None \/ IsDate(date_out)
           /\ date_in # None =>
                LET dt == date_in.date
                IN  IF DateFormats[date_in.fmt] = FmtMDY /\ dt.d <= 12
                    THEN date_out = [y |-> dt.y, m |-> dt.d, d |-> dt.m]
                    ELSE date_out = dt
           /\ date_str \in MalformedDates => date_out = None

\* a day/month/year string whose day could be a month came back as the same date
C7_Witness ==
    /\ date_in # None
    /\ DateFormats[date_in.fmt] = FmtDMY
    /\ date_in.date.d <= 12
    /\ date_in.date.d # date_in.date.m
    /\ date_out = date_in.date

(***************************************************************************)
(* Specification SpecClassify: classify_transactions applied to every      *)
(* collection of at most MaxClsRows transactions whose descriptions come   *)
(* from ClsDescriptions.                                                   *)
(***************************************************************************)
MaxClsRows == 2

ClsDescriptions == {
    <<"M", "o", "n", "t", "h", "l", "y", " ", "G", "a", "s", " ", "B", "i", "l", "l", " ", "P", "a", "y", "m", "e", "n", "t">>,
    <<"C", "o", "f", "f", "e", "e", " ", "S", "h", "o", "p">>,
    <<"R", "E", "N", "T">>,
    <<"O", "f", "f", "i", "c", "e", " ", "l", "e", "a", "s", "e", " ", "a", "n", "d", " ", "w", "a", "t", "e", "r">>,
    <<"S", "a", "l", "a", "r", "y", " ", "L", "o", "a", "n">>,
    <<"L", "o", "a", "n", " ", "i", "n", "t", "e", "r", "e", "s", "t", ",", " ", "i", "n", "s", "u", "r", "a", "n", "c", "e">>,
    <<"I", "n", "s", "u", "r", "a", "n", "c", "e", " ", "P", "r", "e", "m", "i", "u", "m">>,
    <<"P", "a", "r", "e", "n", "t", " ", "g", "i", "f", "t">>,
    <<"P", "a", "y", "r", "o", "l", "l", " ", "r", "e", "n", "t">>,
    <<"W", "i", "F", "i">>,
    <<"M", "o", "r", "t", "g", "a", "g", "e", " ", "p", "r", "e", "m", "i", "u", "m", " ", "w", "a", "g", "e", "s">>,
    <<>>,
    <<"V", "e", "g", "a", "s", " ", "t", "r", "i", "p">>,
    <<"P", "a", "y", "c", "h", "e", "c", "k">>
}

ClsRow(desc) ==
    [date |-> [y |-> 2023, m |-> 1, d |-> 1], description |-> desc,
     amount |-> [neg |-> FALSE, mant |-> 45, exp |-> 0]]

InitClassify ==
    /\ \E n \in 0..MaxClsRows : \E ds \in [1..n -> ClsDescriptions] :
          df = FrameOf(<<"date", "description", "amount">>, [i \in 1..n |-> ClsRow(ds[i])])
    /\ AmountIdle
    /\ DateIdle
    /\ GridIdle
    /\ TextIdle
    /\ ExtractIdle

CallClassifyTransactions ==
    /\ df # NotCalled
    /\ df' = classify_transactions(df)
    /\ cls_out' = Returned
    /\ UNCHANGED <<amountVars, dateVars, gridVars, extractVars, loadVars,
                   cat_out, iso_preds, anom_out, forecast_out, fit_attempted>>

NextClassify == CallClassifyTransactions

SpecClassify == InitClassify /\ [][NextClassify]_vars

(***************************************************************************)
(* Claims about classify_transactions (SpecClassify)                       *)
(***************************************************************************)
\* the claim's category order and, per category, whether one of its keywords
\* occurs in the lower-cased description
C10_Order == <<"rent", "utilities", "payroll", "loan", "insurance">>
C10_Matches(name, desc) ==
    \E k \in DOMAIN categories :
        categories[k].cat = name /\ AnyKeyword(categories[k].keywords, StrLower(desc))

\* C10: every transaction gets the first category, in the order rent, utilities,
\* payroll, loan, insurance, one of whose keywords occurs in the lower-cased
\* description, and 'misc' exactly when no keyword of any category occurs.
C10_FirstCategoryWins ==
    (df # NotCalled /\ HasColumn(df, "category")) =>
        \A i \in DOMAIN df.rows :
            LET row == df.rows[i]
                hit == {k \in DOMAIN C10_Order : C10_Matches(C10_Order[k], row.description)}
            IN  /\ (row.category = "misc") <=> (hit = {})
                /\ hit # {} =>
                     row.category = C10_Order[CHOOSE k \in hit : \A j \in hit : k <= j]

\* a description with keywords of three categories got the earliest of them
C10_Witness ==
    /\ df # NotCalled
    /\ HasColumn(df, "category")
    /\ \E i \in DOMAIN df.rows :
          /\ C10_Matches("payroll", df.rows[i].description)
          /\ C10_Matches("loan", df.rows[i].description)
          /\ C10_Matches("insurance", df.rows[i].description)
          /\ df.rows[i].category = "payroll"

(***************************************************************************)
(* Specification SpecGrid: clean_and_format_data applied to grids with one *)
(* of the header rows of GridHeaders and at most MaxGridRows data rows,    *)
(* the cells of a column drawn from the strings a column of that kind      *)
(* holds.                                                                  *)
(***************************************************************************)
MaxGridRows == 2

HdrDate == <<"D", "a", "t", "e">>
HdrDescription == <<"D", "e", "s", "c", "r", "i", "p", "t", "i", "o", "n">>
HdrNarration == <<"N", "a", "r", "r", "a", "t", "i", "o", "n">>
HdrDebit == <<"D", "e", "b", "i", "t">>
HdrCredit == <<"C", "r", "e", "d", "i", "t">>
HdrBalance == <<"B", "a", "l", "a", "n", "c", "e">>
HdrAmountLower == <<"a", "m", "o", "u", "n", "t">>

GridHeaders == {
    <<HdrDate, HdrDescription, LblAmount>>,
    <<HdrDate, HdrDescription, HdrDebit, HdrCredit>>,
    <<HdrDate, HdrNarration, HdrDebit, HdrCredit, HdrBalance>>,
    <<HdrDate, LblAmount, HdrDebit>>,
    <<HdrDescription, LblAmount>>,
    <<HdrDate, HdrDescription, HdrAmountLower>>
}

DateCells == {
    <<"0", "1", "/", "0", "1", "/", "2", "0", "2", "3">>,
    <<"3", "1", "/", "0", "2", "/", "2", "0", "2", "3">>
}

DescriptionCells == {<<"G", "a", "s", " ", "B", "i", "l", "l">>}

AmountCells == {
    <<"-", "4", "5", ".", "0", "0">>,
    <<"4", "5", ".", "0", "0">>,
    <<"(", "4", "5", ".", "0", "0", ")">>,
    <<"$", "1", ",", "2", "3", "4", ".", "5", "6">>,
    <<".", "0", "0", "0", "0", "1">>,
    <<>>
}

DebitCreditCells == {
    <<"4", "5", ".", "0", "0">>,
    <<"-", "4", "5", ".", "0", "0">>,
    <<>>
}

BalanceCells == {<<"1", "0", "0", ".", "0", "0">>}

CellsFor(h) ==
    IF h = HdrDate THEN DateCells
    ELSE IF h \in {HdrDescription, HdrNarration} THEN DescriptionCells
    ELSE IF h \in {LblAmount, HdrAmountLower} THEN AmountCells
    ELSE IF h \in {HdrDebit, HdrCredit} THEN DebitCreditCells
    ELSE BalanceCells

\* the rows of the first k cells under header h
RECURSIVE RowsUpTo(_, _)
RowsUpTo(h, k) ==
    IF k = 0 THEN {<<>>}
    ELSE {Append(r, c) : r \in RowsUpTo(h, k - 1), c \in CellsFor(h[k])}

GridRows(h) == RowsUpTo(h, Len(h))

InitGrid ==
    /\ \E h \in GridHeaders : \E n \in 0..MaxGridRows : \E rows \in [1..n -> GridRows(h)] :
          grid = [header |-> h, rows |-> rows]
    /\ grid_out = NotCalled
    /\ AmountIdle
    /\ DateIdle
    /\ FrameIdle
    /\ TextIdle
    /\ ExtractIdle

CallCleanAndFormatData ==
    /\ grid # NotCalled
    /\ grid_out = NotCalled
    /\ grid_out' = clean_and_format_data(grid)
    /\ UNCHANGED <<grid, extractVars, amountVars, dateVars, df, textVars>>

NextGrid == CallCleanAndFormatData

SpecGrid == InitGrid /\ [][NextGrid]_vars

(***************************************************************************)
(* Claims about clean_and_format_data (SpecGrid)                           *)
(***************************************************************************)
\* the index in the header of the column labelled l (0 when there is none)
GridColumn(h, l) ==
    IF \E j \in DOMAIN h : h[j] = l THEN CHOOSE j \in DOMAIN h : h[j] = l ELSE 0

\* the data rows that clean_and_format_data keeps: all of them without a date
\* column, those whose date cell parses with one
GridKeptRows(g) ==
    IF GridColumn(g.header, HdrDate) = 0 THEN g.rows
    ELSE SelectSeq(g.rows, LAMBDA r : parse_date(r[GridColumn(g.header, HdrDate)]) # None)

\* the only money column of the grid is the combined signed amount column
C8_OnlyAmount(h) ==
    /\ GridColumn(h, LblAmount) # 0
    /\ \A j \in DOMAIN h : ColumnRole(StrLower(h[j])) \notin {"debit", "credit", "bal"}

\* C8: on a grid whose only money column is the signed amount column, every
\* output row has debit = |amount| and credit = 0.0 when the parsed amount is
\* negative, and credit = amount and debit = 0.0 when it is not.
C8_AmountSplit ==
    (grid_out # NotCalled /\ C8_OnlyAmount(grid.header)) =>
        LET kept == GridKeptRows(grid)
        IN  /\ Len(grid_out.rows) = Len(kept)
            /\ \A k \in DOMAIN grid_out.rows :
                 LET val == parse_amount(kept[k][GridColumn(grid.header, LblAmount)])
                     row == grid_out.rows[k]
                 IN  IF IsNegative(val)
                     THEN NumEq(row[LblDebit].x, Abs(val)) /\ NumEq(row[LblCredit].x, Zero)
                     ELSE NumEq(row[LblCredit].x, val) /\ NumEq(row[LblDebit].x, Zero)

\* C9: every returned row that has debit and credit fields has debit >= 0 and
\* credit >= 0 and at most one of them non-zero, whether the columns were
\* synthesized from a signed amount or come from explicit debit/credit columns.
C9_DebitCreditMagnitudes ==
    grid_out # NotCalled =>
        \A k \in DOMAIN grid_out.rows :
            LET row == grid_out.rows[k]
            IN  (HasColumn(grid_out, LblDebit) /\ HasColumn(grid_out, LblCredit)) =>
                    /\ ~IsNegative(row[LblDebit].x)
                    /\ ~IsNegative(row[LblCredit].x)
                    /\ row[LblDebit].x.mant = 0 \/ row[LblCredit].x.mant = 0

(***************************************************************************)
(* The text units the ingestion path is run on                             *)
(***************************************************************************)
TxtCoffee ==
    <<"1", "2", "/", "3", "1", "/", "2", "0", "1", "7", " ", "C", "o", "f", "f", "e", "e", " ", "S", "h", "o", "p", " ", "P", "u", "r", "c", "h", "a", "s", "e", " ", "4", ".", "5", "0">>

TxtTwoPrimary ==
    <<"0", "1", "/", "1", "5", "/", "2", "0", "1", "8", " ", "D", "e", "p", "o", "s", "i", "t", " ", "$", "1", ",", "2", "3", "4", ".", "5", "6", "\n",
    "0", "1", "/", "1", "6", "/", "2", "0", "1", "8", " ", "C", "a", "r", "d", " ", "P", "a", "y", "m", "e", "n", "t", " ", "2", "0", ".", "0", "0">>

TxtAccountFee ==
    <<"0", "1", " ", "D", "e", "c", " ", "A", "c", "c", "o", "u", "n", "t", " ", "F", "e", "e", " ", "4", ".", "0", "0", " ", "$", "8", "0", "4", ".", "8", "0", " ", "C", "R">>

TxtNoMatch ==
    <<"S", "t", "a", "t", "e", "m", "e", "n", "t", " ", "s", "u", "m", "m", "a", "r", "y", "\n",
    "n", "o", " ", "t", "r", "a", "n", "s", "a", "c", "t", "i", "o", "n", "s">>

TxtBadDate ==
    <<"1", "3", "/", "4", "5", "/", "2", "0", "1", "7", " ", "W", "i", "r", "e", " ", "4", ".", "5", "0">>

TxtMixed ==
    <<"1", "2", "/", "3", "0", "/", "2", "0", "1", "7", " ", "R", "e", "n", "t", " ", "1", ",", "0", "0", "0", ".", "0", "0", "\n",
    "0", "2", " ", "D", "e", "c", " ", "I", "n", "t", "e", "r", "e", "s", "t", " ", "0", ".", "0", "0", " ", "5", ".", "2", "5">>

TxtTwoFallback ==
    <<"2", "9", " ", "F", "e", "b", " ", "S", "a", "l", "a", "r", "y", " ", "0", ".", "0", "0", " ", "1", "0", "0", ".", "0", "0", "\n",
    "0", "3", " ", "M", "a", "r", " ", "C", "h", "e", "c", "k", " ", "1", "2", ".", "0", "0", " ", "8", "8", ".", "0", "0">>

TxtEmpty ==
    <<>>

TextUnits == {TxtCoffee, TxtTwoPrimary, TxtAccountFee, TxtNoMatch, TxtBadDate, TxtMixed,
              TxtTwoFallback, TxtEmpty}

(***************************************************************************)
(* Specification Spec: load_transactions_from_text_files on every list of  *)
(* at most MaxFiles of the text units above, then apply_categorization,    *)
(* classify_transactions, detect_anomalies and forecast_cash_flow called   *)
(* on the DataFrame it returned, any number of times and in any order.     *)
(***************************************************************************)
MaxFiles == 2

\* a leap year and a common year
NowYears == {2023, 2024}

\* forecast_period=30
ForecastPeriod == 30

Init ==
    /\ \E n \in 0..MaxFiles : text_files \in [1..n -> TextUnits]
    /\ now_year \in NowYears
    /\ file_idx = 0
    /\ file_transactions = <<>>
    /\ all_transactions = <<>>
    /\ pc = "loop"
    /\ StagesIdle
    /\ ExtractIdle
    /\ AmountIdle
    /\ DateIdle
    /\ FrameIdle
    /\ GridIdle

\* one iteration of  for file_path in text_files
LoadStep ==
    /\ pc = "loop"
    /\ file_idx < Len(text_files)
    /\ LET text == text_files[file_idx + 1]
           ft   == parse_transactions_from_text(text, now_year)
       IN  /\ file_transactions' = ft
           /\ all_transactions' = ExtendTransactions(all_transactions, ft)
    /\ file_idx' = file_idx + 1
    /\ UNCHANGED <<text_files, now_year, pc, df, stageVars, amountVars, dateVars, gridVars, extractVars>>

\* the loop is over: the DataFrame is built and returned
LoadReturn ==
    /\ pc = "loop"
    /\ file_idx = Len(text_files)
    /\ df' = TransactionsFrame(all_transactions)
    /\ pc' = "returned"
    /\ UNCHANGED <<text_files, now_year, file_idx, file_transactions, all_transactions,
                   stageVars, amountVars, dateVars, gridVars, extractVars>>

CallApplyCategorization ==
    /\ pc = "returned"
    /\ LET r == apply_categorization(df)
       IN  cat_out' = r.out /\ df' = r.df
    /\ UNCHANGED <<loadVars, cls_out, iso_preds, anom_out, forecast_out, fit_attempted,
                   amountVars, dateVars, gridVars, extractVars>>

\* random_state=42 makes the predictions a function of the amounts, which no
\* stage changes: the first fit fixes them
CallDetectAnomalies ==
    /\ pc = "returned"
    /\ IF IsEmptyFrame(df)
       THEN /\ anom_out' = detect_anomalies(df, <<>>).out
            /\ UNCHANGED <<df, iso_preds>>
       ELSE \E preds \in FitPredictOutcomes(df.rows) :
               /\ iso_preds.fitted => iso_preds.preds = preds
               /\ LET r == detect_anomalies(df, preds)
                  IN  /\ anom_out' = r.out
                      /\ df' = r.df
                      /\ iso_preds' = IF IsRaised(r.out) THEN iso_preds ELSE Fitted(preds)
    /\ UNCHANGED <<loadVars, cat_out, cls_out, forecast_out, fit_attempted,
                   amountVars, dateVars, gridVars, extractVars>>

\* forecast_cash_flow works on df.copy()
CallForecastCashFlow ==
    /\ pc = "returned"
    /\ forecast_out' = forecast_cash_flow(df, ForecastPeriod)
    /\ fit_attempted' \in ReachesFit(df)
    /\ UNCHANGED <<loadVars, df, cat_out, cls_out, iso_preds, anom_out,
                   amountVars, dateVars, gridVars, extractVars>>

Next ==
    \/ LoadStep
    \/ LoadReturn
    \/ CallApplyCategorization
    \/ CallDetectAnomalies
    \/ CallForecastCashFlow
    \/ CallClassifyTransactions

Spec == Init /\ [][Next]_vars

\* the concatenation of the parse results of the first n units
RECURSIVE ConcatParsed(_)
ConcatParsed(n) ==
    IF n = 0 THEN <<>>
    ELSE ConcatParsed(n - 1) \o parse_transactions_from_text(text_files[n], now_year)

\* C1: the unit processed last gave exactly one record per match of the
\* primary pattern, and none of the fallback pattern, when the primary
\* pattern matched at least once; records of the fallback pattern appear
\* only when the primary pattern matched nothing.
C1_FallbackOnlyWhenPrimaryEmpty ==
    (pc = "loop" /\ file_idx > 0) =>
        LET text        == text_files[file_idx]
            matches     == PrimaryFindAll(text, 1)
            sec_matches == SecondaryFindAll(text, 1)
        IN  /\ matches # <<>> =>
                /\ Len(file_transactions) = Len(matches)
                /\ \A k \in DOMAIN matches :
                      file_transactions[k] = PrimaryRecord(matches[k])
            /\ matches = <<>> =>
                /\ Len(file_transactions) = Len(sec_matches)
                /\ \A k \in DOMAIN sec_matches :
                      file_transactions[k] = SecondaryRecord(sec_matches[k], now_year)

\* a unit in which both patterns match has been parsed
C1_Witness ==
    /\ pc = "loop"
    /\ file_idx > 0
    /\ PrimaryFindAll(text_files[file_idx], 1) # <<>>
    /\ SecondaryFindAll(text_files[file_idx], 1) # <<>>
    /\ Len(file_transactions) = Len(PrimaryFindAll(text_files[file_idx], 1))

\* C2: the accumulated list is, after every unit, the concatenation in input
\* order of the parse results of the units processed so far, and the
\* DataFrame returned holds exactly the records of all units in that order;
\* a unit that matches nothing adds nothing and changes nothing.
C2_ConcatenationInOrder ==
    /\ pc = "loop" => all_transactions = ConcatParsed(file_idx)
    /\ (pc = "returned" /\ StagesIdle) =>
          /\ file_idx = Len(text_files)
          /\ df.rows = ConcatParsed(Len(text_files))

\* the DataFrame returned for two units: one matches nothing, the other has
\* records
C2_Witness ==
    /\ pc = "returned"
    /\ StagesIdle
    /\ Len(text_files) = 2
    /\ \E i, j \in DOMAIN text_files :
          /\ i # j
          /\ parse_transactions_from_text(text_files[i], now_year) = <<>>
          /\ parse_transactions_from_text(text_files[j], now_year) # <<>>
          /\ df.rows = parse_transactions_from_text(text_files[j], now_year)

\* C3: every record of the DataFrame returned by the text ingestion path has
\* a date: a match whose date token is no calendar date is dropped.
C3_NoAbsentDate ==
    pc = "returned" => \A i \in DOMAIN df.rows : df.rows[i].date # None

\* C4: on the empty DataFrame of a load that found no transaction,
\* apply_categorization, detect_anomalies and forecast_cash_flow raise
\* nothing.
C4_EmptyRaisesNothing ==
    (pc = "returned" /\ all_transactions = <<>>) =>
        /\ ~IsRaised(cat_out)
        /\ ~IsRaised(anom_out)
        /\ ~IsRaised(forecast_out)

(***************************************************************************)
(* Claims about the stages run on the loaded DataFrame (Spec)              *)
(***************************************************************************)
\* C11: a step of apply_categorization, classify_transactions or
\* detect_anomalies on a non-empty collection keeps the number and order of
\* the records and every record's date, description and amount, keeps the
\* columns there were and adds none but category and anomaly; the labels it
\* writes depend on the loaded records alone (the category on the
\* description, the anomaly labels on the fit with the fixed seed), so a
\* second application writes the labels of the first: after the step the
\* DataFrame is a fixed point of the stage that ran.
C11_StagesOnlyLabel ==
    [][(pc = "returned" /\ df.rows # <<>> /\ df' # df) =>
        /\ Len(df'.rows) = Len(df.rows)
        /\ \A i \in DOMAIN df.rows : \A c \in {"date", "description", "amount"} :
              /\ df'.rows[i][c] = df.rows[i][c]
              /\ df'.rows[i][c] = all_transactions[i][c]
        /\ \A j \in DOMAIN df.columns : df'.columns[j] = df.columns[j]
        /\ \A j \in DOMAIN df'.columns :
              j \notin DOMAIN df.columns => df'.columns[j] \in {"category", "anomaly"}
        /\ \/ /\ HasColumn(df', "category")
              /\ apply_categorization(df').df = df'
              /\ \A i \in DOMAIN df'.rows :
                    df'.rows[i].category
                        = categorize_transaction(all_transactions[i].description)
              /\ UNCHANGED iso_preds
           \/ /\ HasColumn(df', "category")
              /\ classify_transactions(df') = df'
              /\ \A i \in DOMAIN df'.rows :
                    df'.rows[i].category
                        = AssignCategory(StrLower(all_transactions[i].description), 1, "misc")
              /\ UNCHANGED iso_preds
           \/ /\ HasColumn(df', "anomaly")
              /\ iso_preds.fitted => iso_preds' = iso_preds
              /\ iso_preds'.fitted
              /\ detect_anomalies(df', iso_preds'.preds).df = df'
              /\ \A i \in DOMAIN df'.rows : df'.rows[i].anomaly = iso_preds'.preds[i]
    ]_vars

\* apply_categorization, then classify_transactions, and detect_anomalies have
\* all run on a DataFrame with rows
C11_Witness ==
    /\ pc = "returned"
    /\ df.rows # <<>>
    /\ cat_out = Returned
    /\ cls_out = Returned
    /\ anom_out = Returned
    /\ HasColumn(df, "anomaly")
    /\ HasColumn(df, "category")
    /\ df.rows[1].category = AssignCategory(StrLower(df.rows[1].description), 1, "misc")

\* the daily points of the series forecast_cash_flow builds from the frame
DailyPoints(frame) ==
    IF DOMAIN GroupByDate(frame) = {} THEN 0 ELSE FlowLen(AsFreqDaily(GroupByDate(frame)))

\* C12: forecast_cash_flow called on transactions that give fewer than two
\* daily points raises before the smoothing fit is attempted and returns no
\* forecast.
C12_GuardBeforeFit ==
    (forecast_out # NotCalled /\ HasColumn(df, "date") /\ DailyPoints(df) < 2) =>
        /\ IsRaised(forecast_out)
        /\ ~fit_attempted

\* C13: every record of the fallback pattern has amount -debit when the
\* first amount of the line (debit) is greater than 0 and +credit (the
\* second amount) otherwise, so the amount is negative exactly when
\* debit > 0.
C13_FallbackSign ==
    (pc = "loop" /\ file_idx > 0 /\ PrimaryFindAll(text_files[file_idx], 1) = <<>>) =>
        LET sec_matches == SecondaryFindAll(text_files[file_idx], 1)
        IN  /\ Len(file_transactions) = Len(sec_matches)
            /\ \A k \in DOMAIN sec_matches :
                  LET debit  == DollarsOrZero(sec_matches[k].debit_str)
                      credit == DollarsOrZero(sec_matches[k].credit_str)
                      amount == file_transactions[k].amount
                  IN  /\ debit.mant > 0 => NumEq(amount, [debit EXCEPT !.neg = TRUE])
                      /\ debit.mant = 0 => NumEq(amount, credit)
                      /\ IsNegative(amount) <=> debit.mant > 0

\* "01 Dec Account Fee 4.00 $804.80 CR" has given the amount -4.00, and a line
\* with debit 0.00 its credit
C13_Witness ==
    /\ pc = "loop"
    /\ file_idx = 2
    /\ text_files[1] = TxtAccountFee
    /\ all_transactions[1].amount = [neg |-> TRUE, mant |-> 4, exp |-> 0]
    /\ text_files[2] = TxtTwoFallback
    /\ file_transactions[1].amount = [neg |-> FALSE, mant |-> 100, exp |-> 0]
    /\ file_transactions[2].amount = [neg |-> TRUE, mant |-> 12, exp |-> 0]

(***************************************************************************)
(* Further claims about clean_and_format_data (SpecGrid)                   *)
(***************************************************************************)
\* the header is recognised as a combined amount column by the matching used
\* for the other columns: 'amount' in col.lower(), last in the elif chain
IsAmountHeader(col) ==
    /\ ColumnRole(StrLower(col)) = "pass"
    /\ IsSubstring(<<"a", "m", "o", "u", "n", "t">>, StrLower(col))

\* the index in the header of the column classified with that role (0: none)
RoleColumn(h, role) ==
    IF \E j \in DOMAIN h : ColumnRole(StrLower(h[j])) = role
    THEN CHOOSE j \in DOMAIN h : ColumnRole(StrLower(h[j])) = role
    ELSE 0

\* the debit and credit fields of the returned rows are the split of the
\* amount cell of column a
SynthesizedFrom(a) ==
    LET kept == GridKeptRows(grid)
    IN  /\ HasColumn(grid_out, LblDebit)
        /\ HasColumn(grid_out, LblCredit)
        /\ \A k \in DOMAIN grid_out.rows :
              LET val == parse_amount(kept[k][a])
                  row == grid_out.rows[k]
              IN  IF IsNegative(val)
                  THEN NumEq(row[LblDebit].x, Abs(val)) /\ row[LblCredit].x.mant = 0
                  ELSE row[LblDebit].x.mant = 0

\* C14: debit/credit are synthesized from the amount column exactly when a
\* column is recognised as amount (case-insensitively, as the other columns
\* are) and no debit or credit column was classified; a classified debit or
\* credit column keeps the values of its own cells.
C14_SynthesisIffNoExplicit ==
    grid_out # NotCalled =>
        LET h      == grid.header
            kept   == GridKeptRows(grid)
            a      == IF \E j \in DOMAIN h : IsAmountHeader(h[j])
                      THEN CHOOSE j \in DOMAIN h : IsAmountHeader(h[j]) ELSE 0
            debit  == RoleColumn(h, "debit")
            credit == RoleColumn(h, "credit")
        IN  /\ (a # 0 /\ debit = 0 /\ credit = 0) => SynthesizedFrom(a)
            /\ (a = 0 /\ debit = 0 /\ credit = 0) =>
                  ~HasColumn(grid_out, LblDebit) /\ ~HasColumn(grid_out, LblCredit)
            /\ debit # 0 =>
                  \A k \in DOMAIN grid_out.rows :
                      NumEq(grid_out.rows[k][LblDebit].x, parse_amount(kept[k][debit]))
            /\ credit # 0 =>
                  \A k \in DOMAIN grid_out.rows :
                      NumEq(grid_out.rows[k][LblCredit].x, parse_amount(kept[k][credit]))

\* the data rows whose cell in column d parses as a date; all of them for d = 0
RowsWithDate(rows, d) ==
    IF d = 0 THEN rows
    ELSE LET Parses(r) == parse_date(r[d]) # None IN SelectSeq(rows, Parses)

\* C15: with a date column classified, the rows returned are the data rows
\* whose date cell parses, in their order, each with its parsed date, so no
\* row returned has an absent date; with no date column classified every
\* data row is returned.  (The money fields tell the rows apart: a debit
\* column classified in a grid without 'Amount' column holds the parsed
\* cell, and a negative amount cell gives its magnitude as debit.)
C15_RowsWithParsedDate ==
    grid_out # NotCalled =>
        LET h     == grid.header
            d     == RoleColumn(h, "date")
            debit == RoleColumn(h, "debit")
            a     == GridColumn(h, LblAmount)
            kept  == RowsWithDate(grid.rows, d)
        IN  /\ Len(grid_out.rows) = Len(kept)
            /\ d = 0 => Len(grid_out.rows) = Len(grid.rows)
            /\ \A k \in DOMAIN grid_out.rows :
                  /\ d # 0 =>
                        /\ grid_out.rows[k][LblDate] # None
                        /\ grid_out.rows[k][LblDate] = parse_date(kept[k][d])
                  /\ (debit # 0 /\ a = 0) =>
                        NumEq(grid_out.rows[k][LblDebit].x, parse_amount(kept[k][debit]))
                  /\ (a # 0 /\ IsNegative(parse_amount(kept[k][a]))) =>
                        NumEq(grid_out.rows[k][LblDebit].x, Abs(parse_amount(kept[k][a])))
                  /\ (a # 0 /\ ~IsNegative(parse_amount(kept[k][a]))) =>
                        grid_out.rows[k][LblDebit].x.mant = 0

\* of two data rows the first, whose date cell does not parse, was dropped and
\* the second returned
C15_Witness ==
    /\ grid_out # NotCalled
    /\ RoleColumn(grid.header, "date") # 0
    /\ Len(grid.rows) = 2
    /\ parse_date(grid.rows[1][RoleColumn(grid.header, "date")]) = None
    /\ parse_date(grid.rows[2][RoleColumn(grid.header, "date")]) # None
    /\ Len(grid_out.rows) = 1

(***************************************************************************)
(* Claims about the daily series of forecast_cash_flow (Spec)              *)
(***************************************************************************)
\* the sum of the amounts of the rows 1..k whose day (ords[i], 0 for a row
\* without date) is d
RECURSIVE DaySum(_, _, _, _)
DaySum(rows, ords, d, k) ==
    IF k = 0 THEN Zero
    ELSE IF ords[k] = d THEN DecAdd(DaySum(rows, ords, d, k - 1), rows[k].amount)
    ELSE DaySum(rows, ords, d, k - 1)

\* C16: the daily series that forecast_cash_flow fitted runs from the earliest
\* to the latest transaction date, has for each day of that range the sum of
\* the signed amounts of the transactions of the day, and 0 for a day without
\* transaction.
C16_DailySeries ==
    (pc = "returned" /\ ~IsRaised(forecast_out) /\ forecast_out # NotCalled) =>
        LET flow  == forecast_out.daily_flow
            rows  == all_transactions
            ords  == [i \in DOMAIN rows |->
                        IF rows[i].date = None THEN 0 ELSE ToOrdinal(rows[i].date)]
            dated == {ords[i] : i \in DOMAIN rows} \ {0}
        IN  /\ dated # {}
            /\ \A d \in dated : flow.start <= d /\ d <= flow.end
            /\ flow.start \in dated
            /\ flow.end \in dated
            /\ DOMAIN flow.sums \subseteq flow.start..flow.end
            /\ \A d \in dated : NumEq(FlowOn(flow, d), DaySum(rows, ords, d, Len(rows)))
            /\ \A d \in flow.start..flow.end : d \notin dated => FlowOn(flow, d) = Zero

\* a series with two transactions on one day and a day without transaction
C16_Witness ==
    /\ pc = "returned"
    /\ ~IsRaised(forecast_out)
    /\ forecast_out # NotCalled
    /\ \E i, j \in DOMAIN all_transactions :
          /\ i # j
          /\ all_transactions[i].date # None
          /\ all_transactions[i].date = all_transactions[j].date
    /\ \E d \in forecast_out.daily_flow.start..forecast_out.daily_flow.end :
          d \notin DOMAIN forecast_out.daily_flow.sums


(***************************************************************************)
(* Specification SpecExtract: step 1 of main (pdf_pipeline.py lines 11-30) *)
(* over at most MaxPdfs PDFs of at most MaxPages pages each.  A page is    *)
(* what page.extract_text() returns for it: a text, or None.  The          *)
(* directory output_dir is the map from n to the content of page_{n}.txt;  *)
(* a number outside its domain is a file that does not exist.  The         *)
(* analysis call of lines 32-40 sits in a try block that swallows every    *)
(* exception and touches no file, so it is no step of its own.             *)
(***************************************************************************)
MaxPdfs == 2

MaxPages == 2

\* the text of a page or of a file
Text(s) == [text |-> s]

PageTexts == {Text("alpha"), Text("beta")}

\* the pages of one PDF: page.extract_text() of each, in page order
Pdfs == UNION { [1..n -> PageTexts \cup {None}] : n \in 0..MaxPages }

\* open(output_file, "w") followed by f.write(text): the file is created or
\* truncated whatever it held, then holds text
WriteFile(dir, n, text) ==
    [k \in DOMAIN dir \cup {n} |-> IF k = n THEN text ELSE dir[k]]

InitExtract ==
    /\ AmountIdle
    /\ DateIdle
    /\ FrameIdle
    /\ GridIdle
    /\ TextIdle
    /\ pdf_files \in UNION { [1..n -> Pdfs] : n \in 0..MaxPdfs }
    /\ pdf_idx = 0
    /\ page_num = 0
    /\ output_dir = <<>>
    /\ extracted = {}
    /\ ext_pc = "loop"

\* the for loop of main takes the next PDF and calls extract_text_from_pdf,
\* which opens it (os.makedirs leaves an existing directory as it is)
OpenPdf ==
    /\ ext_pc = "loop"
    /\ pdf_idx < Len(pdf_files)
    /\ pdf_idx' = pdf_idx + 1
    /\ page_num' = 0
    /\ ext_pc' = "pages"
    /\ UNCHANGED <<pdf_files, output_dir, extracted>>
    /\ UNCHANGED <<amountVars, dateVars, df, gridVars, textVars>>

\* one turn of the page loop: page_{page_num + 1}.txt is opened for writing
\* and the page's text written to it; f.write(None) raises TypeError after
\* the file was truncated, and main's except clause goes on to the next PDF
ExtractPage ==
    /\ ext_pc = "pages"
    /\ page_num < Len(pdf_files[pdf_idx])
    /\ LET text == pdf_files[pdf_idx][page_num + 1]
       IN  IF text = None
           THEN /\ output_dir' = WriteFile(output_dir, page_num + 1, Text(""))
                /\ ext_pc' = "loop"
                /\ UNCHANGED page_num
           ELSE /\ output_dir' = WriteFile(output_dir, page_num + 1, text)
                /\ page_num' = page_num + 1
                /\ UNCHANGED ext_pc
    /\ UNCHANGED <<pdf_files, pdf_idx, extracted>>
    /\ UNCHANGED <<amountVars, dateVars, df, gridVars, textVars>>

\* the page loop is over: extract_text_from_pdf returns its list of files
ReturnExtracted ==
    /\ ext_pc = "pages"
    /\ page_num = Len(pdf_files[pdf_idx])
    /\ extracted' = extracted \cup {pdf_idx}
    /\ ext_pc' = "loop"
    /\ UNCHANGED <<pdf_files, pdf_idx, page_num, output_dir>>
    /\ UNCHANGED <<amountVars, dateVars, df, gridVars, textVars>>

NextExtract == OpenPdf \/ ExtractPage \/ ReturnExtracted

SpecExtract == InitExtract /\ [][NextExtract]_vars

\* the extraction loop has gone through every PDF: step 2 lists output_dir
ExtractionOver == ext_pc = "loop" /\ pdf_idx = Len(pdf_files)

(***************************************************************************)
(* C17: after the extraction loop has processed its PDFs, the extraction   *)
(* of each having returned, the output directory read by the later steps   *)
(* still holds the page text of every page of every PDF: for each PDF p    *)
(* and each of its pages n, the file written for that page, page_{n}.txt,  *)
(* exists and holds the text of page n of p, no later PDF having           *)
(* overwritten it.                                                         *)
(***************************************************************************)
C17_EveryPageKept ==
    (ExtractionOver /\ extracted = 1..Len(pdf_files)) =>
        \A p \in extracted :
            \A n \in 1..Len(pdf_files[p]) :
                /\ n \in DOMAIN output_dir
                /\ output_dir[n] = pdf_files[p][n]

====
